---- MODULE Spec2Model ----
(***************************************************************************)
(* Model of tools/svg2walkable.py: the SVG path-data interpreter           *)
(* (path_to_points), the polygon points parser, the translate/scale        *)
(* accumulation and the main pipeline that selects elements, converts them *)
(* and writes the polygon list.                                            *)
(*                                                                         *)
(* Conventions.  A path-data string is a sequence of lexemes: a command    *)
(* letter or a numeric literal; separators carry no information for the    *)
(* regular expression CMD and are left out.  Any other text (argv, ids,    *)
(* classes, selector values) is a sequence of one-character strings.       *)
(* Coordinates are integers; a point is a pair <<x, y>>.  Python's None is *)
(* the string "None" for cmd and the empty tuple for start.  The token     *)
(* index i is 0-based as in the source, so tokens[i] is Tok(i).            *)
(***************************************************************************)
EXTENDS Integers, Sequences, FiniteSets, TLC

VARIABLES
    \* path_to_points
    dstr,          \* the argument of path_to_points
    tokens,        \* CMD.findall(dstr)
    i,             \* index of the next token
    cur,           \* current point
    start,         \* start of the current subpath, or None
    polys,         \* list of subpaths
    cmd,           \* active command letter, or None
    current_poly,  \* the subpath a moveto is building
    ppc,           \* position inside path_to_points
    err,           \* message of the ValueError raised, "" when none
    \* main
    argv,          \* sys.argv
    doc,           \* the input file: [ok, elems], elems in document order
    pc,            \* position inside main
    key, val,      \* the selector
    elems,         \* the elements to process
    idx,           \* index of the element the for loop is at
    el_polys,      \* polys of the element being processed
    all_polys,     \* the polygons collected so far
    outfile,       \* the output file: [opened, polygons]
    stdout,        \* messages printed
    status         \* exit status of the process, -1 while running

pvars == <<dstr, tokens, i, cur, start, polys, cmd, current_poly, ppc, err>>
mvars == <<argv, doc, pc, key, val, elems, idx, el_polys, all_polys, outfile,
           stdout, status>>
vars == <<pvars, mvars>>

None == << >>

(***************************************************************************)
(* Bounds of the checked input space.                                      *)
(***************************************************************************)
MaxLen == 3     \* every lexeme string up to this length is an input
MaxSegs == 2    \* every string of up to this many well-formed commands
MaxElems == 2   \* elements per document
MaxCalls == 2   \* calls per transform attribute, every combination tried
MantissaBits == 10  \* significand of a float, narrowed from the 53 of binary64

(***************************************************************************)
(* Lexemes and the tokenizer.                                              *)
(***************************************************************************)
Letters == {"M", "m", "L", "l", "H", "h", "V", "v", "Z", "z"}

\* Letters a path may hold that CMD does not name (curves, arcs).
OtherLetters == {"C"}

\* "9007199254740992" is 2^53, the least float whose successor is 2 away
NumLex == {"0", "1", "2", "3", "5", "10", "20", "30", "-1", "9007199254740992"}

\* float(s) of a numeric literal
Float(s) ==
    CASE s = "0" -> 0 [] s = "1" -> 1 [] s = "2" -> 2 [] s = "3" -> 3
      [] s = "5" -> 5 [] s = "10" -> 10 [] s = "20" -> 20 [] s = "30" -> 30
      [] s = "-1" -> -1
      [] s = "9007199254740992" -> 2 ^ MantissaBits

\* the spacing of the floats around a magnitude a
RECURSIVE Ulp(_)
Ulp(a) == IF a < 2 ^ MantissaBits THEN 1 ELSE 2 * Ulp(a \div 2)

\* the float nearest to x, ties to the even significand
Round(x) ==
    LET a == IF x < 0 THEN -x ELSE x
        u == Ulp(a)
        q == a \div u
        r == a % u
        m == IF 2 * r > u \/ (2 * r = u /\ q % 2 = 1) THEN (q + 1) * u ELSE q * u
    IN  IF x < 0 THEN -m ELSE m

\* float addition and multiplication
FAdd(a, b) == Round(a + b)
FMul(a, b) == Round(a * b)

\* re.fullmatch(r"[MmLlHhVvZz]", t)
IsCmd(t) == t \in Letters

\* float(t) succeeds
IsNum(t) == t \in NumLex

\* CMD.findall(dstr): the matches of [MmLlHhVvZz]|num in order; whatever
\* matches neither alternative is passed over.
Findall(s) == SelectSeq(s, LAMBDA t : IsCmd(t) \/ IsNum(t))

Tok(j) == tokens[j + 1]

\* readnum() at index j returns a number
CanRead(j) == j < Len(tokens) /\ IsNum(Tok(j))

\* the message of the ValueError readnum() raises at index j
ReadError(j) ==
    IF j >= Len(tokens) THEN "Unexpected end of path data"
    ELSE "could not convert string to float"

Last(s) == s[Len(s)]

\* polys with its last subpath extended by point p (polys[-1].append(p))
AppendToLast(ps, p) == [ps EXCEPT ![Len(ps)] = Append(@, p)]

\* a lineto that never adds the cursor
AbsMovePoint(c, base, x, y) == <<x, y>>

\* the point of a moveto or lineto pair (x, y) under command c
MovePoint(c, base, x, y) ==
    IF c \in {"m", "l"} THEN <<base[1] + x, base[2] + y>> ELSE <<x, y>>

\* a horizontal lineto that moves along y
HPointKeepsX(c, base, x) ==
    IF c = "h" THEN <<base[1], base[2] + x>> ELSE <<base[1], x>>

\* the point of a horizontal lineto
HPoint(c, base, x) ==
    IF c = "h" THEN <<base[1] + x, base[2]>> ELSE <<x, base[2]>>

\* the point of a vertical lineto
VPoint(c, base, y) ==
    IF c = "v" THEN <<base[1], base[2] + y>> ELSE <<base[1], y>>

\* a closepath that repeats the first point whatever the last one is
ZCloseAlways(poly) == Append(poly, poly[1])

\* lines 131-132: closepath repeats the first point unless the subpath ends there
ZClose(poly) ==
    IF poly[1] # Last(poly) THEN Append(poly, poly[1]) ELSE poly

\* a closing pass that closes nothing
ClosePolyNever(poly) == poly

\* lines 143-144: a subpath with its first point appended unless it ends there
ClosePoly(poly) ==
    IF poly # << >> /\ poly[1] # Last(poly) THEN Append(poly, poly[1]) ELSE poly

(***************************************************************************)
(* path_to_points, one action per step of its loops.                       *)
(***************************************************************************)
Raise(msg, j) ==
    /\ ppc' = "raised"
    /\ err' = msg
    /\ i' = j

\* lines 49-54
Tokenize ==
    /\ ppc = "call"
    /\ tokens' = Findall(dstr)
    /\ i' = 0
    /\ cur' = <<0, 0>>
    /\ start' = None
    /\ polys' = << >>
    /\ cmd' = "None"
    /\ current_poly' = << >>
    /\ err' = ""
    /\ ppc' = "loop"
    /\ UNCHANGED <<dstr, mvars>>

\* lines 64-68: the loop test and the command letter
LoopHead ==
    /\ ppc = "loop"
    /\ i < Len(tokens)
    /\ IF IsCmd(Tok(i))
       THEN cmd' = Tok(i) /\ i' = i + 1
       ELSE UNCHANGED <<cmd, i>>
    /\ ppc' = "dispatch"
    /\ UNCHANGED <<dstr, tokens, cur, start, polys, current_poly, err, mvars>>

\* line 64 false: the loop ends
LoopExit ==
    /\ ppc = "loop"
    /\ i >= Len(tokens)
    /\ ppc' = "close"
    /\ UNCHANGED <<dstr, tokens, i, cur, start, polys, cmd, current_poly, err, mvars>>

\* lines 70-79
MoveTo ==
    /\ ppc = "dispatch"
    /\ cmd \in {"M", "m"}
    /\ IF CanRead(i) /\ CanRead(i + 1)
       THEN LET p == MovePoint(cmd, cur, Float(Tok(i)), Float(Tok(i + 1))) IN
            /\ cur' = p
            /\ start' = p
            /\ current_poly' = <<p>>
            /\ i' = i + 2
            /\ ppc' = "Mpairs"
            /\ UNCHANGED err
       ELSE /\ IF CanRead(i) THEN Raise(ReadError(i + 1), i + 1)
                             ELSE Raise(ReadError(i), i)
            /\ UNCHANGED <<cur, start, current_poly>>
    /\ UNCHANGED <<dstr, tokens, polys, cmd, mvars>>

\* lines 81-90: one more pair after a moveto
MovePair ==
    /\ ppc = "Mpairs"
    /\ i < Len(tokens) /\ ~IsCmd(Tok(i))
    /\ IF CanRead(i) /\ CanRead(i + 1)
       THEN LET nxt == MovePoint(cmd, Last(current_poly),
                                 Float(Tok(i)), Float(Tok(i + 1))) IN
            /\ current_poly' = Append(current_poly, nxt)
            /\ cur' = nxt
            /\ i' = i + 2
            /\ UNCHANGED <<ppc, err>>
       ELSE /\ IF CanRead(i) THEN Raise(ReadError(i + 1), i + 1)
                             ELSE Raise(ReadError(i), i)
            /\ UNCHANGED <<cur, current_poly>>
    /\ UNCHANGED <<dstr, tokens, start, polys, cmd, mvars>>

\* lines 81, 91-92: the pairs are over
MoveEnd ==
    /\ ppc = "Mpairs"
    /\ ~(i < Len(tokens) /\ ~IsCmd(Tok(i)))
    /\ polys' = Append(polys, current_poly)
    /\ ppc' = "loop"
    /\ UNCHANGED <<dstr, tokens, i, cur, start, cmd, current_poly, err, mvars>>

\* a lineto that opens a subpath of its own every time
LineToAlwaysSeeds ==
    /\ ppc = "dispatch"
    /\ cmd \in {"L", "l", "H", "h", "V", "v"}
    /\ polys' = Append(polys, <<cur>>)
    /\ ppc' = "Lpairs"
    /\ UNCHANGED <<dstr, tokens, i, cur, start, cmd, current_poly, err, mvars>>

\* lines 94-97, 106-108, 116-118: a lineto seeds a subpath when there is none
LineTo ==
    /\ ppc = "dispatch"
    /\ cmd \in {"L", "l", "H", "h", "V", "v"}
    /\ polys' = IF polys = << >> THEN <<<<cur>>>> ELSE polys
    /\ ppc' = "Lpairs"
    /\ UNCHANGED <<dstr, tokens, i, cur, start, cmd, current_poly, err, mvars>>

\* lines 98-103: one pair of a lineto
LinePair ==
    /\ ppc = "Lpairs"
    /\ cmd \in {"L", "l"}
    /\ i < Len(tokens) /\ ~IsCmd(Tok(i))
    /\ IF CanRead(i) /\ CanRead(i + 1)
       THEN LET nxt == MovePoint(cmd, cur, Float(Tok(i)), Float(Tok(i + 1))) IN
            /\ polys' = AppendToLast(polys, nxt)
            /\ cur' = nxt
            /\ i' = i + 2
            /\ UNCHANGED <<ppc, err>>
       ELSE /\ IF CanRead(i) THEN Raise(ReadError(i + 1), i + 1)
                             ELSE Raise(ReadError(i), i)
            /\ UNCHANGED <<cur, polys>>
    /\ UNCHANGED <<dstr, tokens, start, cmd, current_poly, mvars>>

\* lines 109-113: one value of a horizontal lineto
HorizStep ==
    /\ ppc = "Lpairs"
    /\ cmd \in {"H", "h"}
    /\ i < Len(tokens) /\ ~IsCmd(Tok(i))
    /\ IF CanRead(i)
       THEN LET nxt == HPoint(cmd, cur, Float(Tok(i))) IN
            /\ polys' = AppendToLast(polys, nxt)
            /\ cur' = nxt
            /\ i' = i + 1
            /\ UNCHANGED <<ppc, err>>
       ELSE /\ Raise(ReadError(i), i)
            /\ UNCHANGED <<cur, polys>>
    /\ UNCHANGED <<dstr, tokens, start, cmd, current_poly, mvars>>

\* lines 119-123: one value of a vertical lineto
VertStep ==
    /\ ppc = "Lpairs"
    /\ cmd \in {"V", "v"}
    /\ i < Len(tokens) /\ ~IsCmd(Tok(i))
    /\ IF CanRead(i)
       THEN LET nxt == VPoint(cmd, cur, Float(Tok(i))) IN
            /\ polys' = AppendToLast(polys, nxt)
            /\ cur' = nxt
            /\ i' = i + 1
            /\ UNCHANGED <<ppc, err>>
       ELSE /\ Raise(ReadError(i), i)
            /\ UNCHANGED <<cur, polys>>
    /\ UNCHANGED <<dstr, tokens, start, cmd, current_poly, mvars>>

\* lines 98, 104 / 109, 114 / 119, 124: the values are over
LineEnd ==
    /\ ppc = "Lpairs"
    /\ ~(i < Len(tokens) /\ ~IsCmd(Tok(i)))
    /\ ppc' = "loop"
    /\ UNCHANGED <<dstr, tokens, i, cur, start, polys, cmd, current_poly, err, mvars>>

\* lines 126-136
ClosePath ==
    /\ ppc = "dispatch"
    /\ cmd \in {"Z", "z"}
    /\ IF polys # << >> /\ Last(polys) # << >>
       THEN /\ polys' = [polys EXCEPT ![Len(polys)] = ZClose(@)]
            /\ cur' = Last(Last(polys'))
       ELSE UNCHANGED <<polys, cur>>
    /\ start' = None
    /\ ppc' = "loop"
    /\ UNCHANGED <<dstr, tokens, i, cmd, current_poly, err, mvars>>

\* lines 138-139
Unsupported ==
    /\ ppc = "dispatch"
    /\ cmd \notin Letters
    /\ Raise("Unsupported path command", i)
    /\ UNCHANGED <<dstr, tokens, cur, start, polys, cmd, current_poly, mvars>>

\* lines 141-145
CloseAll ==
    /\ ppc = "close"
    /\ polys' = [k \in 1..Len(polys) |-> ClosePoly(polys[k])]
    /\ ppc' = "returned"
    /\ UNCHANGED <<dstr, tokens, i, cur, start, cmd, current_poly, err, mvars>>

NextPath ==
    \/ Tokenize
    \/ LoopHead
    \/ LoopExit
    \/ MoveTo
    \/ MovePair
    \/ MoveEnd
    \/ LineTo
    \/ LinePair
    \/ HorizStep
    \/ VertStep
    \/ LineEnd
    \/ ClosePath
    \/ Unsupported
    \/ CloseAll

(***************************************************************************)
(* Text helpers: Python's str.split, str.startswith, the in operator.      *)
(***************************************************************************)
Contains(s, ch) == \E k \in 1..Len(s) : s[k] = ch

\* the index of the first ch in s, 0 when there is none
Find(s, ch) ==
    IF Contains(s, ch) THEN CHOOSE k \in 1..Len(s) :
                                 s[k] = ch /\ \A j \in 1..(k - 1) : s[j] # ch
    ELSE 0

\* s.split(ch)
RECURSIVE Split(_, _)
Split(s, ch) ==
    IF ~Contains(s, ch) THEN <<s>>
    ELSE <<SubSeq(s, 1, Find(s, ch) - 1)>>
         \o Split(SubSeq(s, Find(s, ch) + 1, Len(s)), ch)

\* s.split(ch, 1)
SplitOnce(s, ch) ==
    IF ~Contains(s, ch) THEN <<s>>
    ELSE <<SubSeq(s, 1, Find(s, ch) - 1), SubSeq(s, Find(s, ch) + 1, Len(s))>>

\* s.split(): the maximal runs of non-blank characters
RECURSIVE Words(_)
Words(s) ==
    IF s = << >> THEN << >>
    ELSE IF s[1] = " " THEN Words(Tail(s))
    ELSE IF ~Contains(s, " ") THEN <<s>>
    ELSE <<SubSeq(s, 1, Find(s, " ") - 1)>>
         \o Words(SubSeq(s, Find(s, " ") + 1, Len(s)))

StartsWith(s, prefix) ==
    Len(s) >= Len(prefix) /\ SubSeq(s, 1, Len(prefix)) = prefix

SELECT == <<"-", "-", "s", "e", "l", "e", "c", "t">>
ID == <<"i", "d">>
CLASS == <<"c", "l", "a", "s", "s">>
LABEL == <<"l", "a", "b", "e", "l">>

(***************************************************************************)
(* main: the --select argument (lines 189-195).                            *)
(***************************************************************************)
\* lines 191-192: [ok, key, val]; ok is FALSE when the try block raises
ParseSelect(a) ==
    LET parts == Split(a, "=")
        kv == parts[2]
        pieces == IF Contains(kv, "=") THEN SplitOnce(kv, "=")
                  ELSE SplitOnce(kv, ":")
    IN  IF Len(parts) < 2 THEN [ok |-> FALSE, key |-> None, val |-> None]
        ELSE IF Len(pieces) # 2 THEN [ok |-> FALSE, key |-> None, val |-> None]
        ELSE [ok |-> TRUE, key |-> pieces[1], val |-> pieces[2]]

(***************************************************************************)
(* select_elements and the fallback (lines 157-178, 200-208).              *)
(***************************************************************************)
Paths(d) == SelectSeq(d.elems, LAMBDA e : e.tag = "path")
Polygons(d) == SelectSeq(d.elems, LAMBDA e : e.tag = "polygon")

\* a class test against the whole attribute instead of its words
MatchesWholeClass(e, k, v) ==
    \/ k = ID /\ e.id = v
    \/ k = CLASS /\ e.class = v
    \/ k = LABEL /\ e.label = v

\* lines 165-170 and 172-177
Matches(e, k, v) ==
    \/ k = ID /\ e.id = v
    \/ k = CLASS /\ \E n \in 1..Len(Words(e.class)) : Words(e.class)[n] = v
    \/ k = LABEL /\ e.label = v

select_elements(d, k, v) ==
    SelectSeq(Paths(d), LAMBDA e : Matches(e, k, v))
    \o SelectSeq(Polygons(d), LAMBDA e : Matches(e, k, v))

(***************************************************************************)
(* polygon_points_attr_to_list (lines 148-154).                            *)
(***************************************************************************)
\* the matches of (num)[,\s]+(num): consecutive pairs, an odd last number left
NumPairs(s) ==
    [k \in 1..(Len(s) \div 2) |-> <<Float(s[2 * k - 1]), Float(s[2 * k])>>]

polygon_points_attr_to_list(s) ==
    LET pts == NumPairs(s) IN
    IF pts # << >> /\ pts[1] # Last(pts) THEN Append(pts, pts[1]) ELSE pts

(***************************************************************************)
(* The transform attribute (lines 225-246) and apply_simple_transform.     *)
(* A transform is a sequence of calls [kind, args]; args are the non-empty *)
(* pieces between commas and blanks.                                       *)
(***************************************************************************)
\* re.finditer(r"(translate|scale)\s*\(([^)]+)\)", t)
Finditer(t) == SelectSeq(t, LAMBDA c : c.kind \in {"translate", "scale"})

\* some float(x) of line 232 raises
BadArgs(t) ==
    \E n \in 1..Len(Finditer(t)) :
        \E k \in 1..Len(Finditer(t)[n].args) : ~IsNum(Finditer(t)[n].args[k])

\* a one-argument translate that moves both axes
AccumulateBothAxes(acc, c) ==
    LET n == Len(c.args)
        a == Float(c.args[1])
        b == Float(c.args[2])
    IN  IF c.kind = "translate"
        THEN IF n = 1 THEN [acc EXCEPT !.tx = FAdd(@, a), !.ty = FAdd(@, a)]
             ELSE IF n >= 2 THEN [acc EXCEPT !.tx = FAdd(@, a), !.ty = FAdd(@, b)]
             ELSE acc
        ELSE IF n = 1 THEN [acc EXCEPT !.sx = FMul(@, a), !.sy = FMul(@, a)]
             ELSE IF n >= 2 THEN [acc EXCEPT !.sx = FMul(@, a), !.sy = FMul(@, b)]
             ELSE acc

\* a translate that is scaled by the scale met so far
AccumulateComposed(acc, c) ==
    LET n == Len(c.args)
        a == Float(c.args[1])
        b == Float(c.args[2])
    IN  IF c.kind = "translate"
        THEN IF n = 1 THEN [acc EXCEPT !.tx = FAdd(@, FMul(acc.sx, a))]
             ELSE IF n >= 2 THEN [acc EXCEPT !.tx = FAdd(@, FMul(acc.sx, a)),
                                             !.ty = FAdd(@, FMul(acc.sy, b))]
             ELSE acc
        ELSE IF n = 1 THEN [acc EXCEPT !.sx = FMul(@, a), !.sy = FMul(@, a)]
             ELSE IF n >= 2 THEN [acc EXCEPT !.sx = FMul(@, a), !.sy = FMul(@, b)]
             ELSE acc

\* lines 234-246: one call applied to the accumulated [sx, sy, tx, ty]
Accumulate(acc, c) ==
    LET n == Len(c.args)
        a == Float(c.args[1])
        b == Float(c.args[2])
    IN  IF c.kind = "translate"
        THEN IF n = 1 THEN [acc EXCEPT !.tx = FAdd(@, a)]
             ELSE IF n >= 2 THEN [acc EXCEPT !.tx = FAdd(@, a), !.ty = FAdd(@, b)]
             ELSE acc
        ELSE IF n = 1 THEN [acc EXCEPT !.sx = FMul(@, a), !.sy = FMul(@, a)]
             ELSE IF n >= 2 THEN [acc EXCEPT !.sx = FMul(@, a), !.sy = FMul(@, b)]
             ELSE acc

RECURSIVE AccumulateAll(_, _)
AccumulateAll(acc, calls) ==
    IF calls = << >> THEN acc
    ELSE AccumulateAll(Accumulate(acc, Head(calls)), Tail(calls))

\* the calls of the enclosing group taken before the element's own
ElementTransformWithGroup(t) ==
    AccumulateAll([sx |-> 1, sy |-> 1, tx |-> 0, ty |-> 0], Finditer(doc.group \o t))

\* lines 225-246
ElementTransform(t) ==
    AccumulateAll([sx |-> 1, sy |-> 1, tx |-> 0, ty |-> 0], Finditer(t))

\* lines 39-40
apply_simple_transform(points, sx, sy, tx, ty) ==
    [k \in 1..Len(points) |->
        <<FAdd(FMul(sx, points[k][1]), tx), FAdd(FMul(sy, points[k][2]), ty)>>]

\* lines 251-252
DropClosing(pts) ==
    IF pts # << >> /\ pts[1] = Last(pts) THEN SubSeq(pts, 1, Len(pts) - 1) ELSE pts

\* an element's polygons appended last subpath first
ElementOutputReversed(ps, t) ==
    LET acc == ElementTransform(t) IN
    [k \in 1..Len(ps) |->
        DropClosing(apply_simple_transform(ps[Len(ps) + 1 - k],
                                           acc.sx, acc.sy, acc.tx, acc.ty))]

\* lines 248-253: what one element adds to all_polys
ElementOutput(ps, t) ==
    LET acc == ElementTransform(t) IN
    [k \in 1..Len(ps) |->
        DropClosing(apply_simple_transform(ps[k], acc.sx, acc.sy, acc.tx, acc.ty))]

(***************************************************************************)
(* main, one action per step.                                              *)
(***************************************************************************)
Say(m, n) == stdout' = Append(stdout, [msg |-> m, n |-> n])

\* lines 182-186
Usage ==
    /\ pc = "start"
    /\ Len(argv) < 3
    /\ Say("usage", 0)
    /\ status' = 1
    /\ pc' = "exit"
    /\ UNCHANGED <<pvars, argv, doc, key, val, elems, idx, el_polys, all_polys, outfile>>

\* the output file opened as soon as its name is known
ReadArgsOpensOutput ==
    /\ pc = "start"
    /\ Len(argv) >= 3
    /\ outfile' = [opened |-> TRUE, polygons |-> << >>]
    /\ IF Len(argv) >= 4 /\ StartsWith(argv[4], SELECT)
       THEN LET r == ParseSelect(argv[4]) IN
            IF r.ok
            THEN /\ key' = r.key
                 /\ val' = r.val
                 /\ pc' = "parse"
                 /\ UNCHANGED <<stdout, status>>
            ELSE /\ Say("bad select", 0)
                 /\ status' = 2
                 /\ pc' = "exit"
                 /\ UNCHANGED <<key, val>>
       ELSE /\ pc' = "parse"
            /\ UNCHANGED <<key, val, stdout, status>>
    /\ UNCHANGED <<pvars, argv, doc, elems, idx, el_polys, all_polys>>

\* lines 187-195
ReadArgs ==
    /\ pc = "start"
    /\ Len(argv) >= 3
    /\ IF Len(argv) >= 4 /\ StartsWith(argv[4], SELECT)
       THEN LET r == ParseSelect(argv[4]) IN
            IF r.ok
            THEN /\ key' = r.key
                 /\ val' = r.val
                 /\ pc' = "parse"
                 /\ UNCHANGED <<stdout, status>>
            ELSE /\ Say("bad select", 0)
                 /\ status' = 2
                 /\ pc' = "exit"
                 /\ UNCHANGED <<key, val>>
       ELSE /\ pc' = "parse"
            /\ UNCHANGED <<key, val, stdout, status>>
    /\ UNCHANGED <<pvars, argv, doc, elems, idx, el_polys, all_polys, outfile>>

\* lines 197-198: ET.parse raises on a missing or malformed file
ParseInput ==
    /\ pc = "parse"
    /\ IF doc.ok
       THEN pc' = "select" /\ UNCHANGED status
       ELSE pc' = "crashed" /\ status' = 1
    /\ UNCHANGED <<pvars, argv, doc, key, val, elems, idx, el_polys, all_polys,
                   outfile, stdout>>

\* lines 200-210
Select ==
    /\ pc = "select"
    /\ LET found == IF key # << >> /\ val # << >>
                    THEN select_elements(doc, key, val) ELSE << >>
       IN  /\ elems' = IF found = << >> THEN Paths(doc) \o Polygons(doc) ELSE found
           /\ IF key # << >> /\ val # << >> /\ found = << >>
              THEN Say("nothing matched", 0)
              ELSE UNCHANGED stdout
    /\ all_polys' = << >>
    /\ idx' = 0
    /\ pc' = "loop"
    /\ UNCHANGED <<pvars, argv, doc, key, val, el_polys, outfile, status>>

El == elems[idx + 1]

\* lines 211-214: a path with data is handed to path_to_points
ElemPath ==
    /\ pc = "loop"
    /\ idx < Len(elems)
    /\ El.tag = "path" /\ El.d # << >>
    /\ dstr' = El.d
    /\ ppc' = "call"
    /\ pc' = "in_path"
    /\ UNCHANGED <<tokens, i, cur, start, polys, cmd, current_poly, err>>
    /\ UNCHANGED <<argv, doc, key, val, elems, idx, el_polys, all_polys, outfile,
                   stdout, status>>

\* line 214: path_to_points returned
PathReturned ==
    /\ pc = "in_path"
    /\ ppc = "returned"
    /\ el_polys' = polys
    /\ ppc' = "idle"
    /\ pc' = "transform"
    /\ UNCHANGED <<dstr, tokens, i, cur, start, polys, cmd, current_poly, err>>
    /\ UNCHANGED <<argv, doc, key, val, elems, idx, all_polys, outfile, stdout, status>>

\* an except clause that keeps what the interpreter had built
PathRaisedKeepsPartial ==
    /\ pc = "in_path"
    /\ ppc = "raised"
    /\ Say("skipping", 0)
    /\ all_polys' = all_polys \o polys
    /\ idx' = idx + 1
    /\ ppc' = "idle"
    /\ pc' = "loop"
    /\ UNCHANGED <<dstr, tokens, i, cur, start, polys, cmd, current_poly, err>>
    /\ UNCHANGED <<argv, doc, key, val, elems, el_polys, outfile, status>>

\* lines 215-217: path_to_points raised ValueError
PathRaised ==
    /\ pc = "in_path"
    /\ ppc = "raised"
    /\ Say("skipping", 0)
    /\ idx' = idx + 1
    /\ ppc' = "idle"
    /\ pc' = "loop"
    /\ UNCHANGED <<dstr, tokens, i, cur, start, polys, cmd, current_poly, err>>
    /\ UNCHANGED <<argv, doc, key, val, elems, el_polys, all_polys, outfile, status>>

\* lines 218-219
ElemPolygon ==
    /\ pc = "loop"
    /\ idx < Len(elems)
    /\ ~(El.tag = "path" /\ El.d # << >>)
    /\ El.tag = "polygon" /\ El.points # << >>
    /\ el_polys' = <<polygon_points_attr_to_list(El.points)>>
    /\ pc' = "transform"
    /\ UNCHANGED <<pvars, argv, doc, key, val, elems, idx, all_polys, outfile,
                   stdout, status>>

\* lines 220-221
ElemNoGeometry ==
    /\ pc = "loop"
    /\ idx < Len(elems)
    /\ ~(El.tag = "path" /\ El.d # << >>)
    /\ ~(El.tag = "polygon" /\ El.points # << >>)
    /\ idx' = idx + 1
    /\ UNCHANGED <<pvars, argv, doc, pc, key, val, elems, el_polys, all_polys,
                   outfile, stdout, status>>

\* lines 225-253; a float() of line 232 that raises is caught nowhere
Transform ==
    /\ pc = "transform"
    /\ IF BadArgs(El.transform)
       THEN /\ pc' = "crashed"
            /\ status' = 1
            /\ UNCHANGED <<idx, all_polys>>
       ELSE /\ all_polys' = all_polys \o ElementOutput(el_polys, El.transform)
            /\ idx' = idx + 1
            /\ pc' = "loop"
            /\ UNCHANGED status
    /\ UNCHANGED <<pvars, argv, doc, key, val, elems, el_polys, outfile, stdout>>

\* lines 255-257
WriteOutput ==
    /\ pc = "loop"
    /\ idx >= Len(elems)
    /\ outfile' = [opened |-> TRUE, polygons |-> all_polys]
    /\ Say("wrote", Len(all_polys))
    /\ status' = 0
    /\ pc' = "done"
    /\ UNCHANGED <<pvars, argv, doc, key, val, elems, idx, el_polys, all_polys>>

NextMain ==
    \/ Usage
    \/ ReadArgs
    \/ ParseInput
    \/ Select
    \/ ElemPath
    \/ PathReturned
    \/ PathRaised
    \/ ElemPolygon
    \/ ElemNoGeometry
    \/ Transform
    \/ WriteOutput

Next == NextMain \/ NextPath

(***************************************************************************)
(* Inputs of path_to_points.                                               *)
(***************************************************************************)
Alphabet == Letters \cup OtherLetters \cup {"0", "1"}

\* every lexeme string of length at most MaxLen
FlatStrings == UNION {[1..n -> Alphabet] : n \in 0..MaxLen}

Small == {"0", "1"}

\* one well-formed command, or one more pair of an implicit repetition
Segments ==
    {<<c, a, b>> : c \in {"M", "m", "L", "l"}, a \in Small, b \in Small}
    \cup {<<c, a>> : c \in {"H", "h", "V", "v"}, a \in Small}
    \cup {<<c>> : c \in {"Z", "z"}}
    \cup {<<a, b>> : a \in Small, b \in Small}

RECURSIVE SegStrings(_)
SegStrings(n) ==
    IF n = 0 THEN {<< >>}
    ELSE LET shorter == SegStrings(n - 1) IN
         shorter \cup {s \o g : s \in shorter, g \in Segments}

\* named path strings: the documented examples and variations on them
ExImplicit == <<"M", "0", "0", "L", "10", "0", "20", "0", "30", "0">>
ExRelative == <<"M", "0", "0", "l", "10", "0", "l", "0", "10", "z">>
ExCurve == <<"M", "0", "0", "C", "1", "1", "2", "2", "3", "3">>
ExMoveRun == <<"m", "1", "1", "1", "0", "0", "1", "z">>
ExAfterClose == <<"M", "0", "0", "L", "1", "0", "Z", "L", "2", "2">>
ExHV == <<"M", "1", "1", "H", "5", "v", "2", "h", "-1", "V", "0">>

Examples == {ExImplicit, ExRelative, ExCurve, ExMoveRun, ExAfterClose, ExHV}

PathStrings == FlatStrings \cup SegStrings(MaxSegs) \cup Examples

(***************************************************************************)
(* Inputs of main: the command line and the document.                      *)
(***************************************************************************)
Elem(tag, d, points, transform, id, class, label) ==
    [tag |-> tag, d |-> d, points |-> points, transform |-> transform,
     id |-> id, class |-> class, label |-> label]

Call(kind, args) == [kind |-> kind, args |-> args]

Triangle ==
    Elem("path", <<"M", "0", "0", "l", "1", "0", "l", "0", "1", "z">>, << >>,
         << >>, <<"a">>, <<"k", " ", "w">>, << >>)
Curve == Elem("path", ExCurve, << >>, << >>, <<"b">>, << >>, <<"k">>)
OddRun == Elem("path", <<"M", "0", "0", "L", "1">>, << >>, << >>, <<"a">>, << >>, << >>)
BareCurve == Elem("path", <<"C", "1", "1">>, << >>, << >>, <<"b">>, <<"k">>, << >>)
Dot ==
    Elem("path", <<"M", "5", "5">>, << >>,
         <<Call("scale", <<"2">>), Call("translate", <<"5", "5">>)>>,
         << >>, << >>, <<"a">>)
Steps ==
    Elem("path", <<"M", "1", "1", "H", "2", "V", "2", "Z", "M", "3", "3", "2", "0">>,
         << >>, <<Call("rotate", <<"3">>), Call("translate", <<"3">>)>>,
         <<"b">>, <<"w">>, << >>)
NoData == Elem("path", << >>, << >>, << >>, <<"a">>, << >>, << >>)
Square ==
    Elem("polygon", << >>, <<"0", "0", "10", "0", "10", "10", "0", "10">>, << >>,
         <<"b">>, <<"w">>, << >>)
PolyDot == Elem("polygon", << >>, <<"5", "5">>, << >>, <<"a">>, << >>, << >>)
BadTransform ==
    Elem("polygon", << >>, <<"0", "0", "1", "0", "1", "1">>,
         <<Call("translate", <<"1px">>)>>, << >>, <<"k">>, << >>)

\* an element findall never returns, whatever its attributes
Rect == Elem("rect", << >>, << >>, << >>, <<"a">>, <<"k">>, <<"a">>)

Elements == {Triangle, Curve, OddRun, BareCurve, Dot, Steps, NoData, Square,
             PolyDot, BadTransform, Rect}

Amounts == {"2", "5"}

Calls ==
    {Call(k, <<a>>) : k \in {"translate", "scale", "rotate"}, a \in Amounts}
    \cup {Call(k, <<a, b>>) : k \in {"translate", "scale"}, a \in Amounts, b \in Amounts}

\* one polygon under every transform of at most MaxCalls calls
Transformed ==
    {Elem("polygon", << >>, <<"1", "1", "2", "1", "2", "3">>, t, << >>, << >>, << >>) :
        t \in UNION {[1..n -> Calls] : n \in 0..MaxCalls}}

\* one polygon under two or three translates, one of them as large as 2^53
Absorbing ==
    {Elem("polygon", << >>, <<"1", "1", "2", "1", "2", "3">>, t, << >>, << >>, << >>) :
        t \in UNION {[1..n -> {Call("translate", <<"9007199254740992">>),
                               Call("translate", <<"1">>)}] : n \in 2..3}}

Documents ==
    {[ok |-> TRUE, elems |-> es, group |-> << >>] :
        es \in UNION {[1..n -> Elements] : n \in 0..MaxElems}}
    \cup {[ok |-> TRUE, elems |-> <<e>>, group |-> << >>] :
             e \in Transformed \cup Absorbing}
    \cup {[ok |-> FALSE, elems |-> << >>, group |-> << >>]}

\* the transform attribute of a <g> that encloses every element
Groups == {<<Call("translate", <<"5">>)>>, <<Call("scale", <<"2">>)>>}

\* one element inside a group that carries a transform
GroupedDocuments ==
    {[ok |-> TRUE, elems |-> <<e>>, group |-> g] :
        e \in {Triangle, Steps, Square} \cup Transformed, g \in Groups}

Prog == <<"p">>
Inp == <<"i">>
Outp == <<"o">>

Keys == {ID, CLASS, LABEL}
Values == {<<"a">>, <<"k">>}

\* the ways of writing a selector after the two file names
SelectArgs ==
    {<<SELECT, k \o <<"=">> \o v>> : k \in Keys, v \in Values}
    \cup {<<SELECT \o <<"=">> \o k \o <<"=">> \o v>> : k \in Keys, v \in Values}
    \cup {<<SELECT \o <<"=">> \o k \o <<":">> \o v>> : k \in Keys, v \in Values}
    \cup {<<SELECT \o <<"=">> \o ID \o <<":">> >>, <<SELECT \o <<"=">> \o ID>>,
          <<SELECT>>, <<<<"-", "v">>>>, << >>}

CommandLines ==
    {<<Prog>>, <<Prog, Inp>>} \cup {<<Prog, Inp, Outp>> \o a : a \in SelectArgs}

\* a document of one path, for every short path string and every named one
PathDocuments ==
    {[ok |-> TRUE, elems |-> <<Elem("path", d, << >>, << >>, << >>, << >>, << >>)>>,
      group |-> << >>] :
        d \in FlatStrings \cup Examples}

Init ==
    /\ \/ argv \in CommandLines /\ doc \in Documents \cup GroupedDocuments
       \/ argv = <<Prog, Inp, Outp>> /\ doc \in PathDocuments
    /\ pc = "start"
    /\ key = None
    /\ val = None
    /\ elems = << >>
    /\ idx = 0
    /\ el_polys = << >>
    /\ all_polys = << >>
    /\ outfile = [opened |-> FALSE, polygons |-> << >>]
    /\ stdout = << >>
    /\ status = -1
    /\ dstr = << >>
    /\ tokens = << >>
    /\ i = 0
    /\ cur = <<0, 0>>
    /\ start = None
    /\ polys = << >>
    /\ cmd = "None"
    /\ current_poly = << >>
    /\ ppc = "idle"
    /\ err = ""

Spec == Init /\ [][Next]_vars

(***************************************************************************)
(* path_to_points called on its own.                                       *)
(***************************************************************************)
InitPath ==
    /\ dstr \in PathStrings
    /\ tokens = << >>
    /\ i = 0
    /\ cur = <<0, 0>>
    /\ start = None
    /\ polys = << >>
    /\ cmd = "None"
    /\ current_poly = << >>
    /\ ppc = "call"
    /\ err = ""
    /\ argv = << >>
    /\ doc = [ok |-> TRUE, elems |-> << >>, group |-> << >>]
    /\ pc = "unit"
    /\ key = None
    /\ val = None
    /\ elems = << >>
    /\ idx = 0
    /\ el_polys = << >>
    /\ all_polys = << >>
    /\ outfile = [opened |-> FALSE, polygons |-> << >>]
    /\ stdout = << >>
    /\ status = -1

SpecPath == InitPath /\ [][NextPath]_vars

\* the interpreter is sequential code: while a statement is next, it runs
SpecPathFair == InitPath /\ [][NextPath]_vars /\ WF_vars(NextPath)

(***************************************************************************)
(* Properties.                                                             *)
(***************************************************************************)
HasOther(s) == \E k \in 1..Len(s) : s[k] \in OtherLetters

Front(s) == SubSeq(s, 1, Len(s) - 1)

\* C1: a path whose data holds a command letter outside MmLlHhVvZz makes
\* path_to_points fail, so main never carries that element to the output
\* stage and it contributes no polygon.
C1_UnsupportedLetterSkipped ==
    (pc = "transform" /\ El.tag = "path") => ~HasOther(El.d)

\* C2: every subpath path_to_points returns is non-empty and ends on its
\* first point, whether closepath or the final pass closed it.
C2_ReturnedSubpathsClosed ==
    ppc = "returned" =>
        \A k \in 1..Len(polys) : polys[k] # << >> /\ polys[k][1] = Last(polys[k])

\* a subpath closed by Z, extended afterwards and closed again at the end
C2_Witness ==
    /\ ppc = "returned"
    /\ dstr = ExAfterClose
    /\ polys = <<<<<<0, 0>>, <<1, 0>>, <<0, 0>>, <<2, 2>>, <<0, 0>>>>>>

\* C3: a failure while parsing one element never aborts the run: once the
\* document is read, main skips the element and goes on to write the output.
C3_ElementFailureIsLocal == doc.ok => pc # "crashed"

\* C4: with --select KEY=VALUE after the two file names, KEY one of id,
\* class, label and VALUE non-empty, main takes (KEY, VALUE) as the selector
\* and does not exit with status 2.
C4_DocumentedSelectAccepted ==
    \A k \in Keys, v \in Values :
        (argv = <<Prog, Inp, Outp, SELECT, k \o <<"=">> \o v>> /\ pc # "start")
            => (status # 2 /\ key = k /\ val = v)

IsSingleMove(s) ==
    Len(s) = 3 /\ s[1] \in {"M", "m"} /\ IsNum(s[2]) /\ IsNum(s[3])

\* C5: a path that is one moveto and nothing else reaches the output as a
\* polygon holding exactly one point.
C5_SinglePointWritten ==
    (pc = "done" /\ Len(elems) = 1 /\ elems[1].tag = "path"
     /\ IsSingleMove(elems[1].d) /\ ~BadArgs(elems[1].transform))
        => (Len(outfile.polygons) = 1 /\ Len(outfile.polygons[1]) = 1)

\* a step that consumed one pair of a moveto or lineto run
PairRead ==
    /\ \/ ppc = "Mpairs"
       \/ ppc = "Lpairs" /\ cmd \in {"L", "l"}
    /\ ppc' = ppc
    /\ i' # i

\* the point the pair at the token index denotes: as given under an upper
\* case letter, added to the cursor under a lower case one
PairPoint ==
    IF cmd \in {"M", "L"} THEN <<Float(Tok(i)), Float(Tok(i + 1))>>
    ELSE <<cur[1] + Float(Tok(i)), cur[2] + Float(Tok(i + 1))>>

\* C6: every pair that follows M/m or L/l before the next letter adds one
\* point to the same subpath, absolute or relative as the letter's case
\* says, and opens no subpath; the run M0,0 L10,0 20,0 30,0 is one subpath.
C6_ImplicitRepetition ==
    [][/\ PairRead =>
            /\ i' = i + 2
            /\ cur' = PairPoint
            /\ Len(polys') = Len(polys)
            /\ ppc = "Lpairs" => polys' = AppendToLast(polys, PairPoint)
            /\ ppc = "Mpairs" =>
                   /\ current_poly' = Append(current_poly, PairPoint)
                   /\ polys' = polys
       /\ (ppc = "Mpairs" /\ ppc' = "loop") => polys' = Append(polys, current_poly)
       /\ (ppc' = "returned" /\ dstr = ExImplicit) =>
              polys' = <<<<<<0, 0>>, <<10, 0>>, <<20, 0>>, <<30, 0>>, <<0, 0>>>>>>
       /\ (ppc' = "returned" /\ dstr = ExMoveRun) =>
              polys' = <<<<<<1, 1>>, <<2, 1>>, <<2, 2>>, <<1, 1>>>>>>]_vars

\* the run of three pairs under one L has been read into one subpath
C6_Witness ==
    /\ dstr = ExImplicit
    /\ ppc = "Lpairs"
    /\ i = Len(tokens)
    /\ polys = <<<<<<0, 0>>, <<10, 0>>, <<20, 0>>, <<30, 0>>>>>>

\* the last point a command has produced so far (the closing pass at the end
\* of the string is no command and leaves the cursor alone)
LastPoint ==
    IF ppc = "Mpairs" THEN Last(current_poly)
    ELSE IF polys # << >> THEN Last(Last(polys))
    ELSE <<0, 0>>

\* C7: the cursor is the last point produced (initially the origin); m, l,
\* h, v produce cursor + offset, M and L the point given, H/h keep the
\* cursor's y and V/v its x, and the point produced is the new cursor.
C7_CursorComposition ==
    [][/\ (ppc' \in {"loop", "dispatch", "Mpairs", "Lpairs", "close"})
              => cur' = LastPoint'
       /\ (ppc = "dispatch" /\ ppc' = "Mpairs") =>
              /\ cur' = IF cmd = "m"
                        THEN <<cur[1] + Float(Tok(i)), cur[2] + Float(Tok(i + 1))>>
                        ELSE <<Float(Tok(i)), Float(Tok(i + 1))>>
              /\ current_poly' = <<cur'>>
       /\ PairRead => cur' = PairPoint
       /\ (ppc = "Lpairs" /\ ppc' = ppc /\ i' # i /\ cmd \in {"H", "h"}) =>
              /\ cur' = <<IF cmd = "h" THEN cur[1] + Float(Tok(i)) ELSE Float(Tok(i)),
                          cur[2]>>
              /\ polys' = AppendToLast(polys, cur')
       /\ (ppc = "Lpairs" /\ ppc' = ppc /\ i' # i /\ cmd \in {"V", "v"}) =>
              /\ cur' = <<cur[1],
                          IF cmd = "v" THEN cur[2] + Float(Tok(i)) ELSE Float(Tok(i))>>
              /\ polys' = AppendToLast(polys, cur')
       /\ (ppc' = "returned" /\ dstr = ExRelative) =>
              polys' = <<<<<<0, 0>>, <<10, 0>>, <<10, 10>>, <<0, 0>>>>>>
       /\ (ppc' = "returned" /\ dstr = ExHV) =>
              polys' = <<<<<<1, 1>>, <<5, 1>>, <<5, 3>>, <<4, 3>>, <<4, 0>>, <<1, 1>>>>>>
      ]_vars

\* the relative linetos of M0,0 l10,0 l0,10 z have composed
C7_Witness ==
    /\ dstr = ExRelative
    /\ ppc = "returned"
    /\ cur = <<0, 0>>
    /\ polys = <<<<<<0, 0>>, <<10, 0>>, <<10, 10>>, <<0, 0>>>>>>

\* C8: Z/z reads no argument and raises nothing; with a current subpath it
\* appends the first point exactly when the subpath does not end on it and
\* moves the cursor there; with no subpath it changes neither.
C8_ClosePath ==
    [][(ppc = "dispatch" /\ cmd \in {"Z", "z"}) =>
           /\ ppc' = "loop"
           /\ err' = ""
           /\ i' = i
           /\ polys = << >> => (polys' = polys /\ cur' = cur)
           /\ polys # << >> =>
                  LET sub == Last(polys) IN
                  /\ sub[1] # Last(sub) => polys' = AppendToLast(polys, sub[1])
                  /\ sub[1] = Last(sub) => polys' = polys
                  /\ cur' = sub[1]]_vars

\* z has just closed the open triangle of M0,0 l10,0 l0,10 z
C8_Witness ==
    /\ dstr = ExRelative
    /\ ppc = "loop"
    /\ cmd = "z"
    /\ i = Len(tokens)
    /\ cur = <<0, 0>>
    /\ Len(Last(polys)) = 4

\* the float sum, in the order of t, of argument n of the calls of the
\* given kind that have one
RECURSIVE SumArg(_, _, _)
SumArg(t, kind, n) ==
    IF t = << >> THEN 0
    ELSE FAdd(SumArg(Front(t), kind, n),
              IF Last(t).kind = kind /\ Len(Last(t).args) >= n
              THEN Float(Last(t).args[n]) ELSE 0)

\* the float product, in the order of t, over the scale calls: the first
\* argument (n = 1), or the second where there is one and the first
\* otherwise (n = 2)
RECURSIVE ScaleProduct(_, _)
ScaleProduct(t, n) ==
    IF t = << >> THEN 1
    ELSE FMul(ScaleProduct(Front(t), n),
              IF Last(t).kind = "scale"
              THEN Float(Last(t).args[IF Len(Last(t).args) >= n THEN n ELSE 1])
              ELSE 1)

\* C9: translate(a) adds a to tx, translate(a,b) adds a to tx and b to ty,
\* scale(a) multiplies sx and sy by a, scale(a,b) sx by a and sy by b, any
\* other function is ignored, and every point (x, y) of the element is
\* written as (sx*x + tx, sy*y + ty).
C9_TransformApplied ==
    [][(pc = "transform" /\ pc' = "loop") =>
           LET t == El.transform
               sx == ScaleProduct(t, 1)
               sy == ScaleProduct(t, 2)
               tx == SumArg(t, "translate", 1)
               ty == SumArg(t, "translate", 2)
           IN  /\ Len(all_polys') = Len(all_polys) + Len(el_polys)
               /\ \A k \in 1..Len(el_polys) :
                      LET out == all_polys'[Len(all_polys) + k] IN
                      /\ Len(out) >= Len(el_polys[k]) - 1
                      /\ Len(out) <= Len(el_polys[k])
                      /\ \A j \in 1..Len(out) :
                             out[j] = <<FAdd(FMul(sx, el_polys[k][j][1]), tx),
                                        FAdd(FMul(sy, el_polys[k][j][2]), ty)>>]_vars

\* scale(2) translate(5,5) has taken the point (1,1) to (7,7)
C9_Witness ==
    /\ pc = "done"
    /\ Len(elems) = 1
    /\ elems[1].points = <<"1", "1", "2", "1", "2", "3">>
    /\ elems[1].transform = <<Call("scale", <<"2">>), Call("translate", <<"5", "5">>)>>
    /\ outfile.polygons = <<<<<<7, 7>>, <<9, 7>>, <<9, 11>>>>>>

\* the pairs of a points attribute closed into a ring
Ring(pairs) ==
    IF pairs[1] # Last(pairs) THEN Append(pairs, pairs[1]) ELSE pairs

\* a ring without its closing duplicate: the repeat of the first point at the end
OmitClosing(ring) ==
    IF Len(ring) >= 2 /\ ring[1] = Last(ring) THEN Front(ring) ELSE ring

\* C10: a polygon with k >= 1 pairs in its points attribute is closed into a
\* ring, first pair appended unless already last, and written as that ring
\* without the closing duplicate.
C10_PolygonWritten ==
    (pc = "done" /\ Len(elems) = 1 /\ elems[1].tag = "polygon"
     /\ elems[1].transform = << >> /\ Len(elems[1].points) >= 2)
        => /\ Len(outfile.polygons) = 1
           /\ outfile.polygons[1] = OmitClosing(Ring(NumPairs(elems[1].points)))

\* main has chosen the elements to process
Chosen == doc.ok /\ pc \in {"loop", "in_path", "transform", "done", "crashed"}

SelectorGiven == key # << >> /\ val # << >>

\* v is one of the blank-separated words of the text s
IsWordOf(v, s) ==
    /\ v # << >>
    /\ ~Contains(v, " ")
    /\ \E a \in 1..Len(s) :
           /\ a + Len(v) - 1 <= Len(s)
           /\ SubSeq(s, a, a + Len(v) - 1) = v
           /\ a = 1 \/ s[a - 1] = " "
           /\ a + Len(v) - 1 = Len(s) \/ s[a + Len(v)] = " "

\* the selector names the element e
Named(e) ==
    /\ e.tag \in {"path", "polygon"}
    /\ \/ key = ID /\ e.id = val
       \/ key = CLASS /\ IsWordOf(val, e.class)
       \/ key = LABEL /\ e.label = val

\* the elements of the document with the given tag, in document order
OfTag(tag) == SelectSeq(doc.elems, LAMBDA e : e.tag = tag)

NoneNamed == \A n \in 1..Len(doc.elems) : ~Named(doc.elems[n])

Warned == \E n \in 1..Len(stdout) : stdout[n].msg = "nothing matched"

\* C11: with no selector, or one that names no path or polygon, main
\* processes every path in document order and then every polygon in document
\* order, after a warning in the second case and without an error status;
\* with a selector that names some element it processes exactly the named
\* paths and polygons.
C11_SelectionOrFallback ==
    Chosen =>
        /\ (~SelectorGiven \/ NoneNamed) =>
               /\ elems = OfTag("path") \o OfTag("polygon")
               /\ Warned <=> SelectorGiven
               /\ SelectorGiven => stdout[1].msg = "nothing matched"
               /\ (pc = "loop" /\ idx = 0) => status = -1
        /\ (SelectorGiven /\ ~NoneNamed) =>
               /\ elems = SelectSeq(OfTag("path") \o OfTag("polygon"), Named)
               /\ ~Warned

\* label=k names nothing in a document of a polygon followed by a path: the
\* warning is out and the path comes first
C11_Witness ==
    /\ pc = "loop"
    /\ idx = 0
    /\ key = LABEL
    /\ doc.elems = <<Square, Triangle>>
    /\ elems = <<Triangle, Square>>
    /\ stdout = <<[msg |-> "nothing matched", n |-> 0]>>

IsPrefix(s, t) == Len(s) <= Len(t) /\ SubSeq(t, 1, Len(s)) = s

\* the polygons of the two subpaths of Steps, moved by translate(3)
StepsPolygons ==
    <<<<<<4, 1>>, <<5, 1>>, <<5, 2>>>>, <<<<6, 3>>, <<5, 0>>>>>>

TrianglePolygon == <<<<0, 0>>, <<1, 0>>, <<1, 1>>>>

SquarePolygon == <<<<0, 0>>, <<10, 0>>, <<10, 10>>, <<0, 10>>>>

\* C12: the list written is the concatenation, in processing order and
\* inside an element in subpath order, of the subpaths of the elements that
\* parsed; nothing is merged, dropped or moved, a skipped element adds
\* nothing, and the count reported is the length of the list written.
C12_OutputIsConcatenation ==
    [][/\ pc # "select" => IsPrefix(all_polys, all_polys')
       /\ (pc = "in_path" /\ pc' = "transform") => el_polys' = polys
       /\ (pc = "transform" /\ pc' = "loop") =>
              /\ Len(all_polys') = Len(all_polys) + Len(el_polys)
              /\ \A k \in 1..Len(el_polys) :
                     Len(all_polys'[Len(all_polys) + k]) \in
                         {Len(el_polys[k]) - 1, Len(el_polys[k])}
       /\ (pc = "in_path" /\ pc' = "loop") => all_polys' = all_polys
       /\ (pc = "loop" /\ pc' = "loop") => all_polys' = all_polys
       /\ pc' = "done" =>
              /\ outfile'.polygons = all_polys
              /\ Last(stdout') = [msg |-> "wrote", n |-> Len(outfile'.polygons)]
              /\ elems = <<Steps, Square>> =>
                     outfile'.polygons = StepsPolygons \o <<SquarePolygon>>
              /\ elems = <<Square, Steps>> =>
                     outfile'.polygons = <<SquarePolygon>> \o StepsPolygons
              /\ elems = <<Triangle, Triangle>> =>
                     outfile'.polygons = <<TrianglePolygon, TrianglePolygon>>
              /\ elems = <<OddRun, Triangle>> =>
                     outfile'.polygons = <<TrianglePolygon>>
              /\ elems = <<Triangle, NoData>> =>
                     outfile'.polygons = <<TrianglePolygon>>]_vars

\* two subpaths of one path and then a polygon have been written, three reported
C12_Witness ==
    /\ pc = "done"
    /\ elems = <<Steps, Square>>
    /\ outfile.polygons = StepsPolygons \o <<SquarePolygon>>
    /\ Last(stdout) = [msg |-> "wrote", n |-> 3]

\* the token at index j (0-based) is a number
NumberAt(j) == j < Len(tokens) /\ Tok(j) \notin Letters

\* how many numbers follow index j (0-based) before a letter or the end
RECURSIVE RunLength(_)
RunLength(j) == IF NumberAt(j) THEN 1 + RunLength(j + 1) ELSE 0

\* every M/m is followed by an even run of at least two numbers and every
\* L/l by an even run
RunsComplete ==
    \A j \in 0..(Len(tokens) - 1) :
        /\ Tok(j) \in {"M", "m"} => (RunLength(j + 1) >= 2 /\ RunLength(j + 1) % 2 = 0)
        /\ Tok(j) \in {"L", "l"} => RunLength(j + 1) % 2 = 0

\* C13: when the tokens end, or a letter comes, where M/m or L/l still needs
\* a number (M/m with fewer than two, or an odd run), path_to_points raises
\* and hands back nothing, and main skips the element.
C13_MissingNumberRaises ==
    [][/\ (ppc = "dispatch" /\ cmd \in {"M", "m"} /\ ~(NumberAt(i) /\ NumberAt(i + 1)))
              => ppc' = "raised"
       /\ (/\ ppc = "Mpairs" \/ (ppc = "Lpairs" /\ cmd \in {"L", "l"})
           /\ NumberAt(i) /\ ~NumberAt(i + 1))
              => ppc' = "raised"
       /\ ppc = "raised" =>
              /\ pc' = "loop"
              /\ idx' = idx + 1
              /\ all_polys' = all_polys
              /\ el_polys' = el_polys
              /\ Last(stdout').msg = "skipping"
       /\ (pc = "in_path" /\ pc' = "transform") => RunsComplete]_vars

\* the odd run of M0,0 L1 has raised and main has skipped the element
C13_Witness ==
    /\ pc = "loop"
    /\ idx = 1
    /\ elems = <<OddRun>>
    /\ err = "Unexpected end of path data"
    /\ all_polys = << >>
    /\ Last(stdout).msg = "skipping"

\* the text has a first "=" and, after it and before any second "=", a ":"
HasKeyColon(a) ==
    \E p \in 1..Len(a), q \in 1..Len(a) :
        /\ p < q
        /\ a[p] = "="
        /\ a[q] = ":"
        /\ \A r \in 1..(q - 1) : r # p => a[r] # "="

UsageError ==
    \/ Len(argv) < 3
    \/ Len(argv) >= 4 /\ StartsWith(argv[4], SELECT) /\ ~HasKeyColon(argv[4])

\* C14: a usage error leaves with a non-zero status straight from the start,
\* before the input is parsed; the output file is opened only by the final
\* write, after a good parse and after every selected element was handled;
\* an input that does not parse never opens the output file.
C14_IOOrdering ==
    [][/\ (pc = "start" /\ UsageError) =>
              pc' = "exit" /\ status' \in {1, 2} /\ Len(stdout') = Len(stdout) + 1
       /\ pc' = "exit" => pc = "start" /\ UsageError /\ ~outfile'.opened
       /\ pc = "parse" => ~UsageError /\ ~outfile.opened
       /\ (pc = "parse" /\ ~doc.ok) =>
              pc' = "crashed" /\ status' # 0 /\ ~outfile'.opened
       /\ pc' = "crashed" => ~outfile'.opened
       /\ outfile'.opened =>
              /\ pc = "loop" /\ pc' = "done"
              /\ doc.ok
              /\ idx = Len(elems)
              /\ ~outfile.opened]_vars

\* the input did not parse: the run has ended with the output file untouched
C14_Witness ==
    /\ pc = "crashed"
    /\ ~doc.ok
    /\ Len(argv) = 3
    /\ status = 1
    /\ outfile = [opened |-> FALSE, polygons |-> << >>]

\* what is written for an element standing alone, from its own attributes
OwnOutput(e) ==
    IF e = Triangle THEN <<TrianglePolygon>>
    ELSE IF e = Steps THEN StepsPolygons
    ELSE IF e = Square THEN <<SquarePolygon>>
    ELSE LET t == e.transform
             sx == ScaleProduct(t, 1)
             sy == ScaleProduct(t, 2)
             tx == SumArg(t, "translate", 1)
             ty == SumArg(t, "translate", 2)
         IN  <<<<<<sx + tx, sy + ty>>, <<2 * sx + tx, sy + ty>>,
                 <<2 * sx + tx, 3 * sy + ty>>>>>>

\* C15: what is written for an element comes from its own geometry and its
\* own transform attribute only: a document of one element gives the same
\* output whatever transform the enclosing group carries, or none.
C15_AncestorsIgnored ==
    (/\ pc = "done"
     /\ Len(doc.elems) = 1
     /\ doc.elems[1] \in {Triangle, Steps, Square} \cup Transformed)
        => outfile.polygons = OwnOutput(doc.elems[1])

\* a polygon with translate(5) scale(2) inside a group with scale(2) has
\* been written with its own transform alone
C15_Witness ==
    /\ pc = "done"
    /\ doc.group = <<Call("scale", <<"2">>)>>
    /\ Len(doc.elems) = 1
    /\ doc.elems[1].transform = <<Call("translate", <<"5">>), Call("scale", <<"2">>)>>
    /\ outfile.polygons = <<<<<<7, 2>>, <<9, 2>>, <<9, 6>>>>>>

LineLetters == {"L", "l", "H", "h", "V", "v"}

\* the number of M/m letters among the tokens
MoveLetters == Cardinality({j \in 1..Len(tokens) : tokens[j] \in {"M", "m"}})

\* 1 when a lineto letter stands before every M/m, else 0
SeedFirst ==
    IF \E j \in 1..Len(tokens) :
           /\ tokens[j] \in LineLetters
           /\ \A k \in 1..(j - 1) : tokens[k] \notin {"M", "m"}
    THEN 1 ELSE 0

\* C16: a subpath is opened only by M/m, or by the first lineto when there
\* is none; a return hands back as many subpaths as there are M/m letters,
\* plus one if a lineto letter comes before the first M/m; a lineto after
\* Z/z goes on in the subpath that Z closed.
C16_SubpathCount ==
    [][/\ Len(polys') > Len(polys) =>
              /\ Len(polys') = Len(polys) + 1
              /\ \/ cmd \in {"M", "m"}
                 \/ cmd \in LineLetters /\ polys = << >>
       /\ (ppc = "dispatch" /\ cmd \in LineLetters /\ polys # << >>) =>
              polys' = polys
       /\ (ppc = "Lpairs" /\ ppc' = "Lpairs") =>
              Len(polys') = Len(polys) /\ Front(polys') = Front(polys)
       /\ ppc' = "returned" => Len(polys') = MoveLetters + SeedFirst]_vars

\* M0,0 L1,0 Z L2,2 has returned one subpath that goes on to (2,2)
C16_Witness ==
    /\ ppc = "returned"
    /\ tokens = ExAfterClose
    /\ Len(polys) = 1
    /\ \E k \in 4..Len(polys[1]) : polys[1][k] = <<2, 2>> /\ polys[1][k - 1] = <<0, 0>>

\* C17: path_to_points ends on every token stream, with a return or with an
\* error, since every turn of the outer loop takes a token or raises.
C17_Terminates == <>(ppc \in {"returned", "raised"})

\* the reorderings of a sequence
Perms(t) ==
    {[k \in 1..Len(t) |-> t[f[k]]] :
        f \in {g \in [1..Len(t) -> 1..Len(t)] :
                  \A a \in 1..Len(t), b \in 1..Len(t) : a # b => g[a] # g[b]}}

OfKind(t, kind) == SelectSeq(t, LAMBDA c : c.kind = kind)

\* C18: the points written for an element are the same for every
\* reordering of the calls of its transform attribute.
C18_OrderIndependent ==
    [][(pc = "transform" /\ pc' = "loop") =>
           \A p \in Perms(El.transform) :
               all_polys' = all_polys \o ElementOutput(el_polys, p)]_vars

\* C18, amended: the same for every reordering that keeps the translates in
\* their order and the scales in theirs, and for every reordering at all
\* when there are at most two translates and at most two scales.
C18_OrderWithinKind ==
    [][(pc = "transform" /\ pc' = "loop") =>
           LET t == El.transform IN
           \A p \in Perms(t) :
               (\/ /\ OfKind(p, "translate") = OfKind(t, "translate")
                   /\ OfKind(p, "scale") = OfKind(t, "scale")
                \/ /\ Len(OfKind(t, "translate")) <= 2
                   /\ Len(OfKind(t, "scale")) <= 2)
               => all_polys' = all_polys \o ElementOutput(el_polys, p)]_vars

\* translate(5,5) scale(2) has taken the point (1,1) to (7,7)
C18_Witness ==
    /\ pc = "done"
    /\ Len(elems) = 1
    /\ elems[1].transform = <<Call("translate", <<"5", "5">>), Call("scale", <<"2">>)>>
    /\ outfile.polygons = <<<<<<7, 7>>, <<9, 7>>, <<9, 11>>>>>>

====
